---- MODULE Spec2Model ----
(***************************************************************************)
(* Model of src/src/syncFiles.ts: the SyncFiles class (upload, list,       *)
(* delete) over an object-storage client, with the pacing helper wait().   *)
(*                                                                         *)
(* Strings are sequences of characters, so that key building               *)
(* (`${prefix}${path}`), String.prototype.replace, Array.prototype.join    *)
(* and the lexicographic order of object names are computed, not assumed.  *)
(*                                                                         *)
(* One asynchronous call runs at a time; every await of the source is a    *)
(* position of pc, and the code between two awaits is one atomic action.   *)
(* Date.now() and the elapsed-time return values are not modelled.         *)
(***************************************************************************)
EXTENDS Integers, Sequences, FiniteSets, TLC

VARIABLES
    opts,           \* this.options: [waitBeforeUpload, waitBeforeDelete]
    calls,          \* number of calls made on the instance so far
    op,             \* the running (or last) method: none, upload, list, delete
    pc,             \* position of the call
    prefix,         \* argument prefix
    fileInfoArr,    \* argument of upload
    i,              \* upload: index of the for-of iteration
    marker,         \* list: local variable marker
    pageNo,         \* list: number of list requests issued
    existsFileArr,  \* list: local variable existsFileArr
    delFileArr,     \* delete: argument delFileArr as passed
    delKeys,        \* delete: delFileArr after its reassignment to the keys
    listed,         \* list: the resolved value
    events,         \* this call's timers, log messages, requests, responses
    openStreams,    \* read streams created by this call and not yet closed
    store,          \* content of the bucket (faithful store)
    clean,          \* the bucket held no key under prefix when the call began
    prev            \* summary of the last call that ended

vars == << opts, calls, op, pc, prefix, fileInfoArr, i, marker, pageNo,
           existsFileArr, delFileArr, delKeys, listed, events, openStreams,
           store, clean, prev >>

----------------------------------------------------------------------------
(* Bounds *)

MaxCalls    == 2    \* calls made on one instance
MaxEntries  == 2    \* entries of one upload
MaxPaths    == 2    \* paths of one delete
MaxPages    == 2    \* list requests of one list call
MaxPageObjs == 2    \* objects on one page returned by the client
StorePageSize == 1  \* objects on one page of the faithful store

----------------------------------------------------------------------------
(* Strings *)

NL == "\n"

Ord(c) == IF c = "a" THEN 1 ELSE IF c = "b" THEN 2 ELSE 0

Range(s) == { s[k] : k \in 1..Len(s) }

SeqsUpTo(S, n) == UNION { [1..k -> S] : k \in 0..n }

StartsWith(s, p) ==
    /\ Len(p) <= Len(s)
    /\ SubSeq(s, 1, Len(p)) = p

\* String.prototype.indexOf: 0-based position of the first occurrence, or -1
IndexOf(s, pat) ==
    LET hits == { k \in 0..(Len(s) - Len(pat)) :
                     SubSeq(s, k + 1, k + Len(pat)) = pat }
    IN  IF hits = {} THEN -1
        ELSE CHOOSE k \in hits : \A h \in hits : k <= h

\* targetKey.replace(prefix, ''): removes the first occurrence of a string
\* pattern, wherever it is
Replace(s, pat) ==
    LET k == IndexOf(s, pat)
    IN  IF k = -1 THEN s
        ELSE SubSeq(s, 1, k) \o SubSeq(s, k + Len(pat) + 1, Len(s))

\* Array.prototype.join(sep)
RECURSIVE Join(_, _)
Join(arr, sep) ==
    IF arr = <<>> THEN <<>>
    ELSE IF Len(arr) = 1 THEN arr[1]
    ELSE arr[1] \o <<sep>> \o Join(Tail(arr), sep)

\* Lexicographic order of object names
RECURSIVE LexLess(_, _)
LexLess(s, t) ==
    IF t = <<>> THEN FALSE
    ELSE IF s = <<>> THEN TRUE
    ELSE IF Ord(Head(s)) # Ord(Head(t)) THEN Ord(Head(s)) < Ord(Head(t))
    ELSE LexLess(Tail(s), Tail(t))

\* The elements of a finite set of names in lexicographic order
RECURSIVE Sorted(_)
Sorted(S) ==
    IF S = {} THEN <<>>
    ELSE LET m == CHOOSE x \in S : \A y \in S \ {x} : LexLess(x, y)
         IN  <<m>> \o Sorted(S \ {m})

----------------------------------------------------------------------------
(* Inputs *)

Prefixes == { <<>>, <<"a">> }

RelPaths == { <<>>, <<"b">>, <<"a", "b">> }

\* FileInfo = [relativePath, localSourcePath, ACLType]
FileInfos ==
    { << <<>>, "x", "private" >>,
      << <<"b">>, "y", "public-read" >>,
      << <<"a", "b">>, "x", "private" >> }

\* SyncFilesOptions.waitBeforeUpload / waitBeforeDelete, in seconds: <<>> is
\* unset. Each knob is unset, zero and non-zero in some configuration.
Options ==
    { [waitBeforeUpload |-> <<>>,  waitBeforeDelete |-> <<>>],
      [waitBeforeUpload |-> <<0>>, waitBeforeDelete |-> <<1>>],
      [waitBeforeUpload |-> <<1>>, waitBeforeDelete |-> <<0>>],
      [waitBeforeUpload |-> <<1>>, waitBeforeDelete |-> <<1>>] }

\* Object names a storage client may report on a page
ObjectNames == { <<"a", "b">>, <<"b", "a">> }

Statuses == { 200, 500 }

NullMarker == [isString |-> FALSE, val |-> <<>>]

StrMarker(m) == [isString |-> TRUE, val |-> m]

\* nextMarker values a storage client may report: null or a string
NextMarkers == { NullMarker, StrMarker(<<>>), StrMarker(<<"b">>) }

AllKeys == { p \o r : p \in Prefixes, r \in RelPaths }

----------------------------------------------------------------------------
(* Events of a call, in the order they happen *)

Timer(ms) == [ev |-> "timer", ms |-> ms]

Fired == [ev |-> "fired"]

Log(chan, msg) == [ev |-> "log", chan |-> chan, msg |-> msg]

PutReq(key, src, acl) ==
    [ev |-> "req", api |-> "putStream", key |-> key, src |-> src, acl |-> acl]

ListReq(p, m) == [ev |-> "req", api |-> "list", prefix |-> p, marker |-> m]

DelReq(keys) == [ev |-> "req", api |-> "deleteMulti", keys |-> keys]

PutResp(status) == [ev |-> "resp", api |-> "putStream", status |-> status]

ListResp(status, objs, next) ==
    [ev |-> "resp", api |-> "list", status |-> status, objects |-> objs,
     nextMarker |-> next]

DelResp(status, deleted) ==
    [ev |-> "resp", api |-> "deleteMulti", status |-> status,
     deleted |-> deleted]

Throw(api) == [ev |-> "throw", api |-> api]

StatusText(status) ==
    IF status = 200 THEN "200" ELSE IF status = 500 THEN "500" ELSE "400"

\* JSON.stringify(result.res)
Json(status) == << "{\"status\":", StatusText(status), "}" >>

Logs == SelectSeq(events, LAMBDA e : e.ev = "log")

LogsOn(chan) == SelectSeq(Logs, LAMBDA e : e.chan = chan)

Requests == SelectSeq(events, LAMBDA e : e.ev = "req")

Responses == SelectSeq(events, LAMBDA e : e.ev = "resp")

Throws == SelectSeq(events, LAMBDA e : e.ev = "throw")

----------------------------------------------------------------------------
(* Pure parts of the methods *)

\* wait(seconds = 0): the default parameter value
WaitSeconds(v) == IF v = <<>> THEN 0 ELSE v[1]

\* Slip: the timer is set whatever the value
WaitAlwaysSchedules(seconds) == TRUE

\* wait: `if (seconds)`
WaitSchedules(seconds) == seconds # 0

\* Slip: the entries are walked from the end
CurrentEntryReversed(arr, k) == arr[Len(arr) + 1 - k]

\* upload: `for (const fileInfo of fileInfoArr)`, the entry of pass k
CurrentEntry(arr, k) == arr[k]

\* upload: targetKey = `${prefix}${fileInfo[0]}`
TargetKey(p, fileInfo) == p \o fileInfo[1]

\* upload: the message logged for a putStream result
OutcomeLog(key, status) ==
    IF status = 200
    THEN Log("success", << key, <<"elapsed">> >>)
    ELSE Log("error", << key, Json(status) >>)

\* Slip: a failed entry ends the loop
NextIndexStopsOnError(k, status) ==
    IF status = 200 THEN k + 1 ELSE Len(fileInfoArr) + 1

\* upload: the for-of loop moves to the next entry after either outcome
NextIndex(k, status) == k + 1

\* list: existsFileArr.push(...result.objects.map(obj => obj.name))
PushAll(arr, objs) == arr \o objs

\* Slip: the names are accumulated before the status is looked at
KeepOnErrorPushes(arr, objs) == arr \o objs

\* list: on a non-200 page nothing of that page is accumulated
KeepOnError(arr, objs) == arr

\* Slip: the keys are returned as they are
StripNone(arr, p) == arr

\* list: existsFileArr.map(targetKey => targetKey.replace(prefix, ''))
StripAll(arr, p) == [k \in 1..Len(arr) |-> Replace(arr[k], p)]

\* Slip: the paths are sent without the prefix
MapKeysNoPrefix(p, arr) == arr

\* delete: delFileArr.map(filename => `${prefix}${filename}`)
MapKeys(p, arr) == [k \in 1..Len(arr) |-> p \o arr[k]]

\* Slip: the negation is lost
FailedInverted(arr, deleted) == SelectSeq(arr, LAMBDA k : k \in deleted)

\* delete: delFileArr.filter(targetKey => !result.deleted.includes(targetKey))
Failed(arr, deleted) == SelectSeq(arr, LAMBDA k : k \notin deleted)

\* delete: `Delete failed:\n${failed.join('\n')}`
DeleteFailedText(failed) == << "Delete failed:", NL >> \o Join(failed, NL)

----------------------------------------------------------------------------
(* Faithful store: object names are non-empty; a listing returns, in       *)
(* lexicographic order, the names that begin with prefix and come strictly *)
(* after marker, StorePageSize at a time; nextMarker is the last name of a  *)
(* truncated page and null otherwise.                                      *)

StorePutStatuses(key) == IF key = <<>> THEN { 400 } ELSE { 200, 500 }

StoreMatches(p, m) ==
    Sorted({ k \in store : StartsWith(k, p) /\ LexLess(m, k) })

StorePage(p, m) ==
    LET all == StoreMatches(p, m)
    IN  SubSeq(all, 1, IF Len(all) < StorePageSize THEN Len(all) ELSE StorePageSize)

StoreNextMarker(p, m) ==
    LET all == StoreMatches(p, m)
    IN  IF Len(all) > StorePageSize THEN StrMarker(all[StorePageSize])
        ELSE NullMarker

----------------------------------------------------------------------------
(* Calls *)

NoCall == [op |-> "none", pc |-> "idle", prefix |-> <<>>, rels |-> <<>>,
           ok |-> FALSE, clean |-> FALSE]

\* What the call that has ended did
Summary ==
    [op |-> op, pc |-> pc, prefix |-> prefix,
     rels |-> [k \in 1..Len(fileInfoArr) |-> fileInfoArr[k][1]],
     ok |-> \A k \in 1..Len(Responses) : Responses[k].status = 200,
     clean |-> clean]

\* new SyncFiles(options)
Init ==
    /\ opts \in Options
    /\ calls = 0
    /\ op = "none"
    /\ pc = "idle"
    /\ prefix = <<>>
    /\ fileInfoArr = <<>>
    /\ i = 1
    /\ marker = NullMarker
    /\ pageNo = 0
    /\ existsFileArr = <<>>
    /\ delFileArr = <<>>
    /\ delKeys = <<>>
    /\ listed = <<>>
    /\ events = <<>>
    /\ openStreams = {}
    /\ store = {}
    /\ clean = TRUE
    /\ prev = NoCall

CanCall ==
    /\ pc = "idle"
    /\ calls < MaxCalls

\* The start of any call: fresh locals, and where the method begins with
\* `await wait(seconds)`, the timer that wait sets (timer) or none
Begin(o, p, timer, seconds, pcWait, pcGo) ==
    /\ CanCall
    /\ calls' = calls + 1
    /\ op' = o
    /\ prefix' = p
    /\ i' = 1
    /\ pageNo' = 0
    /\ existsFileArr' = <<>>
    /\ listed' = <<>>
    /\ openStreams' = {}
    /\ delKeys' = <<>>
    /\ clean' = (\A k \in store : ~StartsWith(k, p))
    /\ prev' = prev
    /\ events' = IF timer THEN << Timer(seconds * 1000) >> ELSE <<>>
    /\ pc' = IF timer THEN pcWait ELSE pcGo
    /\ UNCHANGED << opts, store >>

\* upload(prefix, fileInfoArr, log), up to `await wait(...)`
CallUpload(p, es) ==
    /\ Begin("upload", p,
             WaitSchedules(WaitSeconds(opts.waitBeforeUpload)),
             WaitSeconds(opts.waitBeforeUpload), "u_wait", "u_loop")
    /\ fileInfoArr' = es
    /\ delFileArr' = <<>>
    /\ marker' = NullMarker

\* list(prefix, log), up to the first test of the while loop
CallList(p) ==
    /\ Begin("list", p, FALSE, 0, "l_loop", "l_loop")
    /\ marker' = StrMarker(p)
    /\ fileInfoArr' = <<>>
    /\ delFileArr' = <<>>

\* delete(prefix, delFileArr, log), up to `await wait(...)`
CallDelete(p, paths) ==
    /\ Begin("delete", p,
             WaitSchedules(WaitSeconds(opts.waitBeforeDelete)),
             WaitSeconds(opts.waitBeforeDelete), "d_wait", "d_start")
    /\ delFileArr' = paths
    /\ fileInfoArr' = <<>>
    /\ marker' = NullMarker

\* The promise of the call has settled and the caller has taken its outcome:
\* the locals of the call are gone, and the next call can be made. prev is
\* history kept for the round trip only (record), and left alone otherwise
Settle(record) ==
    /\ pc \in { "returned", "raised" }
    /\ prev' = IF record THEN Summary ELSE prev
    /\ pc' = "idle"
    /\ op' = "none"
    /\ prefix' = <<>>
    /\ fileInfoArr' = <<>>
    /\ i' = 1
    /\ marker' = NullMarker
    /\ pageNo' = 0
    /\ existsFileArr' = <<>>
    /\ delFileArr' = <<>>
    /\ delKeys' = <<>>
    /\ listed' = <<>>
    /\ events' = <<>>
    /\ openStreams' = {}
    /\ clean' = TRUE
    /\ UNCHANGED << opts, calls, store >>

\* The timer of wait() fires and resolves its promise
TimerFires ==
    /\ pc \in { "u_wait", "d_wait" }
    /\ pc' = IF pc = "u_wait" THEN "u_loop" ELSE "d_start"
    /\ events' = Append(events, Fired)
    /\ UNCHANGED << opts, calls, op, prefix, fileInfoArr, i, marker, pageNo,
                    existsFileArr, delFileArr, delKeys, listed, openStreams, store,
                    clean, prev >>

----------------------------------------------------------------------------
(* upload *)

\* One pass of the for-of body up to `await this.oss.putStream(...)`:
\* log.pending, createReadStream, putStream
UploadPutStream ==
    /\ pc = "u_loop"
    /\ i <= Len(fileInfoArr)
    /\ LET fileInfo  == CurrentEntry(fileInfoArr, i)
           targetKey == TargetKey(prefix, fileInfo)
       IN  events' = events \o
               << Log("pending", << <<"Uploading ">> \o targetKey \o <<"...">> >>),
                  PutReq(targetKey, fileInfo[2], fileInfo[3]) >>
    /\ openStreams' = openStreams \cup { i }
    /\ pc' = "u_put"
    /\ UNCHANGED << opts, calls, op, prefix, fileInfoArr, i, marker, pageNo,
                    existsFileArr, delFileArr, delKeys, listed, store, clean, prev >>

\* The loop is exhausted: upload resolves
UploadReturn ==
    /\ pc = "u_loop"
    /\ i > Len(fileInfoArr)
    /\ pc' = "returned"
    /\ UNCHANGED << opts, calls, op, prefix, fileInfoArr, i, marker, pageNo,
                    existsFileArr, delFileArr, delKeys, listed, events, openStreams,
                    store, clean, prev >>

\* A read stream closes itself only once the client has read it to its end;
\* upload never closes or destroys it
StreamsAfter(consumed) == IF consumed THEN openStreams \ { i } ELSE openStreams

\* putStream resolves with result.res.status = status; st is the bucket
\* after the request
PutStreamResponds(status, consumed, st) ==
    /\ pc = "u_put"
    /\ events' = events \o
           << PutResp(status),
              OutcomeLog(TargetKey(prefix, CurrentEntry(fileInfoArr, i)), status) >>
    /\ i' = NextIndex(i, status)
    /\ openStreams' = StreamsAfter(consumed)
    /\ store' = st
    /\ pc' = "u_loop"
    /\ UNCHANGED << opts, calls, op, prefix, fileInfoArr, marker, pageNo,
                    existsFileArr, delFileArr, delKeys, listed, clean, prev >>

\* putStream rejects: nothing catches it, upload rejects
PutStreamThrows(consumed) ==
    /\ pc = "u_put"
    /\ events' = Append(events, Throw("putStream"))
    /\ openStreams' = StreamsAfter(consumed)
    /\ pc' = "raised"
    /\ UNCHANGED << opts, calls, op, prefix, fileInfoArr, i, marker, pageNo,
                    existsFileArr, delFileArr, delKeys, listed, store, clean, prev >>

----------------------------------------------------------------------------
(* list *)

\* while (typeof marker === 'string'): the next request
ListRequest ==
    /\ pc = "l_loop"
    /\ marker.isString
    /\ events' = Append(events, ListReq(prefix, marker.val))
    /\ pageNo' = pageNo + 1
    /\ pc' = "l_req"
    /\ UNCHANGED << opts, calls, op, prefix, fileInfoArr, i, marker,
                    existsFileArr, delFileArr, delKeys, listed, openStreams, store,
                    clean, prev >>

\* The loop ends because marker is no string: list resolves
ListReturn ==
    /\ pc = "l_loop"
    /\ ~marker.isString
    /\ listed' = StripAll(existsFileArr, prefix)
    /\ pc' = "returned"
    /\ UNCHANGED << opts, calls, op, prefix, fileInfoArr, i, marker, pageNo,
                    existsFileArr, delFileArr, delKeys, events, openStreams, store,
                    clean, prev >>

\* A page with status 200
ListRespondsOk(objs, next) ==
    /\ pc = "l_req"
    /\ events' = Append(events, ListResp(200, objs, next))
    /\ existsFileArr' = PushAll(existsFileArr, objs)
    /\ marker' = next
    /\ pc' = "l_loop"
    /\ UNCHANGED << opts, calls, op, prefix, fileInfoArr, i, pageNo,
                    delFileArr, delKeys, listed, openStreams, store, clean, prev >>

\* A page with another status: log.error, break, and list resolves
ListRespondsError(status, objs) ==
    /\ pc = "l_req"
    /\ status # 200
    /\ events' = events \o << ListResp(status, objs, NullMarker),
                           Log("error", << Json(status) >>) >>
    /\ existsFileArr' = KeepOnError(existsFileArr, objs)
    /\ listed' = StripAll(existsFileArr', prefix)
    /\ pc' = "returned"
    /\ UNCHANGED << opts, calls, op, prefix, fileInfoArr, i, marker, pageNo,
                    delFileArr, delKeys, openStreams, store, clean, prev >>

\* this.oss.list rejects: list rejects
ListThrows ==
    /\ pc = "l_req"
    /\ events' = Append(events, Throw("list"))
    /\ pc' = "raised"
    /\ UNCHANGED << opts, calls, op, prefix, fileInfoArr, i, marker, pageNo,
                    existsFileArr, delFileArr, delKeys, listed, openStreams, store,
                    clean, prev >>

----------------------------------------------------------------------------
(* delete *)

\* After the wait: map the paths to keys and send the one deleteMulti
DeleteRequest ==
    /\ pc = "d_start"
    /\ delKeys' = MapKeys(prefix, delFileArr)
    /\ events' = Append(events, DelReq(delKeys'))
    /\ pc' = "d_req"
    /\ UNCHANGED << opts, calls, op, prefix, fileInfoArr, i, marker, pageNo,
                    existsFileArr, delFileArr, listed, openStreams, store, clean, prev >>

\* deleteMulti resolves with result.res.status = status and
\* result.deleted = deleted; st is the bucket after the request
DeleteMultiResponds(status, deleted, st) ==
    /\ pc = "d_req"
    /\ LET failed == Failed(delKeys, deleted)
       IN  events' = events \o << DelResp(status, deleted) >> \o
               ( IF status = 200
                 THEN IF Len(failed) # 0
                      THEN << Log("error", << DeleteFailedText(failed) >>) >>
                      ELSE <<>>
                 ELSE << Log("error", << Json(status) >>) >> )
    /\ store' = st
    /\ pc' = "returned"
    /\ UNCHANGED << opts, calls, op, prefix, fileInfoArr, i, marker, pageNo,
                    existsFileArr, delFileArr, delKeys, listed, openStreams, clean,
                    prev >>

\* deleteMulti rejects: delete rejects
DeleteMultiThrows ==
    /\ pc = "d_req"
    /\ events' = Append(events, Throw("deleteMulti"))
    /\ pc' = "raised"
    /\ UNCHANGED << opts, calls, op, prefix, fileInfoArr, i, marker, pageNo,
                    existsFileArr, delFileArr, delKeys, listed, openStreams, store,
                    clean, prev >>

----------------------------------------------------------------------------
(* Spec: the class against a storage client that may answer anything *)

ClientUpload ==
    \E p \in Prefixes, es \in SeqsUpTo(FileInfos, MaxEntries) :
        CallUpload(p, es)

ClientList == \E p \in Prefixes : CallList(p)

ClientDelete ==
    \E p \in Prefixes, paths \in SeqsUpTo(RelPaths, MaxPaths) :
        CallDelete(p, paths)

ClientSettle == Settle(FALSE)

AnyPutStreamResponds ==
    \E status \in Statuses, consumed \in BOOLEAN :
        /\ status = 200 => consumed
        /\ PutStreamResponds(status, consumed, store)

AnyPutStreamThrows == \E consumed \in BOOLEAN : PutStreamThrows(consumed)

AnyListRespondsOk ==
    \E objs \in SeqsUpTo(ObjectNames, MaxPageObjs), next \in NextMarkers :
        /\ pageNo = MaxPages => next = NullMarker
        /\ ListRespondsOk(objs, next)

AnyListRespondsError ==
    \E status \in Statuses \ { 200 }, objs \in SeqsUpTo(ObjectNames, MaxPageObjs) :
        ListRespondsError(status, objs)

AnyDeleteMultiResponds ==
    \E status \in Statuses, deleted \in SUBSET AllKeys :
        /\ status # 200 => deleted = {}
        /\ DeleteMultiResponds(status, deleted, store)

Next ==
    \/ ClientUpload
    \/ ClientList
    \/ ClientDelete
    \/ ClientSettle
    \/ TimerFires
    \/ UploadPutStream
    \/ UploadReturn
    \/ AnyPutStreamResponds
    \/ AnyPutStreamThrows
    \/ ListRequest
    \/ ListReturn
    \/ AnyListRespondsOk
    \/ AnyListRespondsError
    \/ ListThrows
    \/ DeleteRequest
    \/ AnyDeleteMultiResponds
    \/ DeleteMultiThrows

Spec == Init /\ [][Next]_vars

----------------------------------------------------------------------------
(* SpecStore: the class against the faithful store *)

StoreSettle == Settle(TRUE)

\* A write is stored exactly when it is answered 200
StorePutStreamResponds ==
    /\ pc = "u_put"
    /\ \E status \in StorePutStatuses(TargetKey(prefix, CurrentEntry(fileInfoArr, i))),
          consumed \in BOOLEAN :
           /\ status = 200 => consumed
           /\ PutStreamResponds(status, consumed,
                  IF status = 200
                  THEN store \cup { TargetKey(prefix, CurrentEntry(fileInfoArr, i)) }
                  ELSE store)

StoreListResponds ==
    /\ pc = "l_req"
    /\ ListRespondsOk(StorePage(prefix, marker.val),
                      StoreNextMarker(prefix, marker.val))

\* Every requested key is removed and reported as deleted
StoreDeleteMultiResponds ==
    /\ pc = "d_req"
    /\ DeleteMultiResponds(200, Range(delKeys), store \ Range(delKeys))

NextStore ==
    \/ ClientUpload
    \/ ClientList
    \/ ClientDelete
    \/ StoreSettle
    \/ TimerFires
    \/ UploadPutStream
    \/ UploadReturn
    \/ StorePutStreamResponds
    \/ ListRequest
    \/ ListReturn
    \/ StoreListResponds
    \/ DeleteRequest
    \/ StoreDeleteMultiResponds

SpecStore == Init /\ [][NextStore]_vars

----------------------------------------------------------------------------
(* Properties *)

ApiRequests(api) == SelectSeq(Requests, LAMBDA e : e.api = api)

Outcomes == SelectSeq(Logs, LAMBDA e : e.chan \in { "success", "error" })

\* The key of entry k of the running upload, from its arguments
EntryKey(k) == prefix \o fileInfoArr[k][1]

\* The object names of the first n pages received, in order
RECURSIVE PageNames(_)
PageNames(n) ==
    IF n = 0 THEN <<>> ELSE PageNames(n - 1) \o Responses[n].objects

\* name without its leading p
AfterPrefix(name, p) == SubSeq(name, Len(p) + 1, Len(name))

\* The number of events before position j that satisfy Test
CountBefore(j, Test(_)) == Cardinality({ k \in 1..(j - 1) : Test(events[k]) })

IsPutResponse(e) == e.ev = "resp"

IsOutcome(e) == e.ev = "log" /\ e.chan \in { "success", "error" }

IsPutRequest(e) == e.ev = "req"

\* The segments of text between separators (String.prototype.split)
RECURSIVE Split(_, _)
Split(text, sep) ==
    LET at == { k \in 1..Len(text) : text[k] = sep }
    IN  IF at = {} THEN << text >>
        ELSE LET k == CHOOSE x \in at : \A y \in at : x <= y
             IN  << SubSeq(text, 1, k - 1) >> \o
                 Split(SubSeq(text, k + 1, Len(text)), sep)

\* C1: whatever statuses putStream returns, upload has logged exactly one
\* outcome for every entry answered so far, success for 200 and an error
\* naming the entry's key otherwise, goes on to the next entry after either,
\* and when it returns every entry has had its one putStream and one outcome.
C1_OneOutcomePerEntry ==
    op = "upload" =>
        /\ Len(Outcomes) = Len(Responses)
        /\ Len(Responses) <= Len(fileInfoArr)
        /\ \A k \in 1..Len(Responses) :
              /\ ApiRequests("putStream")[k].key = EntryKey(k)
              /\ Outcomes[k].msg[1] = EntryKey(k)
              /\ Outcomes[k].chan =
                    IF Responses[k].status = 200 THEN "success" ELSE "error"
        /\ pc = "u_loop" => i = Len(Responses) + 1
        /\ pc = "returned" =>
              /\ Len(ApiRequests("putStream")) = Len(fileInfoArr)
              /\ Len(Outcomes) = Len(fileInfoArr)
              /\ Len(LogsOn("error")) =
                    Cardinality({ k \in 1..Len(Responses) :
                                     Responses[k].status # 200 })

\* An upload of two entries returned after a 500 on the first and a 200 on
\* the second
C1_Witness ==
    /\ op = "upload"
    /\ pc = "returned"
    /\ Len(fileInfoArr) = 2
    /\ Len(Responses) = 2
    /\ Responses[1].status = 500
    /\ Responses[2].status = 200
    /\ Len(LogsOn("error")) = 1
    /\ Len(LogsOn("success")) = 1

\* C2: no operation raises to its caller when a storage request raises a
\* transport error: the call goes on and returns normally.
C2_NoOperationRaises ==
    Throws # <<>> => pc # "raised"

----------------------------------------------------------------------------

\* C3: when every page has status 200, list asks for the pages one after
\* another, the first with marker = prefix and each later one with the
\* nextMarker of the page before, stops only at a nextMarker that is no
\* string, and returns one path per object name received, in the order
\* received, where prefix + path is the name for every name that begins with
\* prefix.
C3_ListConcatenatesPages ==
    ( /\ op = "list"
      /\ \A k \in 1..Len(Responses) : Responses[k].status = 200 ) =>
        LET reqs  == ApiRequests("list")
            names == PageNames(Len(Responses))
        IN  /\ \A k \in 1..Len(reqs) :
                  /\ reqs[k].prefix = prefix
                  /\ k = 1 => reqs[k].marker = prefix
                  /\ k > 1 =>
                        /\ Responses[k - 1].nextMarker.isString
                        /\ reqs[k].marker = Responses[k - 1].nextMarker.val
            /\ pc = "returned" =>
                  /\ Len(reqs) = Len(Responses)
                  /\ Len(Responses) >= 1
                  /\ ~Responses[Len(Responses)].nextMarker.isString
                  /\ Len(listed) = Len(names)
                  /\ \A j \in 1..Len(names) :
                        StartsWith(names[j], prefix) =>
                            prefix \o listed[j] = names[j]

\* Two pages under prefix "a", two names on the first and one on the second
C3_Witness ==
    /\ op = "list"
    /\ pc = "returned"
    /\ prefix = <<"a">>
    /\ Len(Responses) = 2
    /\ Responses[1].status = 200
    /\ Responses[2].status = 200
    /\ Responses[1].objects = << <<"a", "b">>, <<"b", "a">> >>
    /\ Responses[2].objects = << <<"a", "b">> >>
    /\ listed = << <<"b">>, <<"b">>, <<"b">> >>

\* C4: when page k has a status other than 200, list has logged exactly one
\* error, has sent no request after the k-th, and has returned the stripped
\* names of pages 1..k-1 only.
C4_ListStopsAtFailedPage ==
    ( /\ op = "list"
      /\ \E k \in 1..Len(Responses) : Responses[k].status # 200 ) =>
        LET n     == Len(Responses)
            names == PageNames(n - 1)
        IN  /\ \A k \in 1..(n - 1) : Responses[k].status = 200
            /\ pc = "returned"
            /\ Len(Logs) = 1
            /\ Logs[1].chan = "error"
            /\ Len(ApiRequests("list")) = n
            /\ events[Len(events)].ev = "log"
            /\ Len(listed) = Len(names)
            /\ \A j \in 1..Len(names) :
                  StartsWith(names[j], prefix) =>
                      listed[j] = AfterPrefix(names[j], prefix)

\* A first page of one name, then a failed second page that carries a name
C4_Witness ==
    /\ op = "list"
    /\ pc = "returned"
    /\ prefix = <<"a">>
    /\ Len(Responses) = 2
    /\ Responses[1].objects = << <<"a", "b">> >>
    /\ Responses[2].status = 500
    /\ Responses[2].objects # <<>>
    /\ listed = << <<"b">> >>

\* C5: when deleteMulti returns 200, delete logs an error exactly when some
\* requested key is not in the reported deleted set; it is then the only
\* message, and the keys it names are the requested keys that are not in
\* the deleted set, in request order.
C5_DeleteReportsUndeleted ==
    ( /\ op = "delete"
      /\ pc = "returned"
      /\ Responses[1].status = 200 ) =>
        LET requested == [k \in 1..Len(delFileArr) |-> prefix \o delFileArr[k]]
            missing   == SelectSeq(requested,
                                   LAMBDA k : k \notin Responses[1].deleted)
        IN  /\ (LogsOn("error") # <<>>) <=> (missing # <<>>)
            /\ Len(Logs) <= 1
            /\ missing # <<>> =>
                  LET lines == Split(Logs[1].msg[1], NL)
                  IN  /\ lines[1] = << "Delete failed:" >>
                      /\ Tail(lines) = missing

\* Two keys requested, the store confirms only the second
C5_Witness ==
    /\ op = "delete"
    /\ pc = "returned"
    /\ prefix = <<"a">>
    /\ delFileArr = << <<"b">>, <<"a", "b">> >>
    /\ Responses[1].status = 200
    /\ Responses[1].deleted = { <<"a", "a", "b">> }
    /\ Len(Logs) = 1
    /\ Logs[1].msg[1] = << "Delete failed:", NL, "a", "b" >>

\* C6: against the faithful store, with no key under prefix before it, an
\* upload whose writes are all answered 200, directly followed by list under
\* the same prefix, lists exactly the set of uploaded relative paths.
C6_RoundTrip ==
    ( /\ op = "list"
      /\ pc = "returned"
      /\ prev.op = "upload"
      /\ prev.pc = "returned"
      /\ prev.prefix = prefix
      /\ prev.ok
      /\ prev.clean ) =>
        Range(listed) = Range(prev.rels)

\* C7: a delete call sends at most one request; once sent it is the one
\* deleteMulti of prefix + path for the given paths in the given order; on a
\* status other than 200 delete logs exactly one error and returns.
C7_OneDeleteMulti ==
    op = "delete" =>
        /\ Len(Requests) <= 1
        /\ pc \in { "d_req", "returned", "raised" } =>
              Requests = << DelReq([k \in 1..Len(delFileArr) |->
                                       prefix \o delFileArr[k]]) >>
        /\ pc \in { "d_wait", "d_start" } => Requests = <<>>
        /\ (Responses # <<>> /\ Responses[1].status # 200) =>
              /\ pc = "returned"
              /\ Len(Logs) = 1
              /\ Logs[1].chan = "error"

\* A delete of two paths under prefix "a" answered 500
C7_Witness ==
    /\ op = "delete"
    /\ pc = "returned"
    /\ prefix = <<"a">>
    /\ Len(delFileArr) = 2
    /\ Responses # <<>>
    /\ Responses[1].status = 500
    /\ Len(Requests) = 1

\* C8: in upload and delete nothing is requested or logged before the
\* pacing wait is over: a non-zero value schedules one timer of that many
\* seconds first and everything else follows its firing; a zero or unset
\* value schedules no timer and the call never waits.
C8_WaitBeforeWork ==
    op \in { "upload", "delete" } =>
        LET v       == IF op = "upload" THEN opts.waitBeforeUpload
                       ELSE opts.waitBeforeDelete
            seconds == IF v = <<>> THEN 0 ELSE v[1]
            timers  == SelectSeq(events, LAMBDA e : e.ev = "timer")
        IN  /\ seconds = 0 =>
                  /\ timers = <<>>
                  /\ pc \notin { "u_wait", "d_wait" }
            /\ seconds # 0 =>
                  /\ Len(timers) = 1
                  /\ events[1] = Timer(seconds * 1000)
                  /\ Len(events) >= 2 => events[2] = Fired
            /\ pc \in { "u_wait", "d_wait" } =>
                  /\ Requests = <<>>
                  /\ Logs = <<>>

\* An upload with waitBeforeUpload = 1 whose first putStream follows the
\* firing of the timer
C8_Witness ==
    /\ op = "upload"
    /\ opts.waitBeforeUpload = <<1>>
    /\ Len(events) >= 4
    /\ events[1].ev = "timer"
    /\ events[2].ev = "fired"
    /\ events[3].ev = "log"
    /\ events[4].ev = "req"

\* C9: in an upload at most one putStream is in flight; the k-th putStream
\* is for the k-th entry, directly follows the pending log of that entry,
\* and is sent only after k-1 putStream results and k-1 outcome logs.
C9_SequentialUpload ==
    op = "upload" =>
        LET puts == ApiRequests("putStream")
        IN  /\ Len(puts) - Len(Responses) - Len(Throws) \in { 0, 1 }
            /\ \A k \in 1..Len(puts) : puts[k].key = EntryKey(k)
            /\ \A j \in 1..Len(events) :
                  events[j].ev = "req" =>
                      LET k == CountBefore(j, IsPutRequest) + 1
                      IN  /\ CountBefore(j, IsPutResponse) = k - 1
                          /\ CountBefore(j, IsOutcome) = k - 1
                          /\ j > 1
                          /\ events[j - 1].ev = "log"
                          /\ events[j - 1].chan = "pending"
                          /\ events[j - 1].msg =
                                << <<"Uploading ">> \o EntryKey(k) \o <<"...">> >>

\* The second putStream of an upload of two different entries is in flight
C9_Witness ==
    /\ op = "upload"
    /\ pc = "u_put"
    /\ Len(fileInfoArr) = 2
    /\ fileInfoArr[1] # fileInfoArr[2]
    /\ i = 2
    /\ Len(ApiRequests("putStream")) = 2
    /\ Len(Responses) = 1

\* C10: every read stream upload opens is closed by the time upload moves
\* to the next entry or ends, so at most one is open and none once upload
\* is between entries or over.
C10_StreamsReleased ==
    op = "upload" =>
        /\ Cardinality(openStreams) <= 1
        /\ pc \in { "u_loop", "returned", "raised" } => openStreams = {}

====
